---- MODULE Spec2Model ----
(***************************************************************************)
(* Model of oxplot/ama: the indexer (runIndex), the index file on disk,    *)
(* and the query path (loadIndex, runQuery, runCLI, runServer).            *)
(*                                                                         *)
(* Abstractions.  A document's HTML is a sequence of tokens: "h" a heading *)
(* open tag (<h1>, <H2 ...>), "t" any other tag, "s" a whole               *)
(* <script>..</script> block, "n" a newline, and "x" a run of n bytes of   *)
(* plain text.  A chunk is a sequence of "sp" (one space) and text runs;   *)
(* its byte length is what len(chunkContent) is in the code.               *)
(* float64 components are integers.  Slice indices are 0-based as in the   *)
(* code; TLA+ sequences are 1-based, hence the +1 at each access.          *)
(*                                                                         *)
(* The environment.  Opening or decoding a document, the provider calls    *)
(* and the writes of the index file can each fail at any time.  The        *)
(* provider returns one vector per input text.  A document file that can   *)
(* be read holds what it held when it was indexed.                         *)
(*                                                                         *)
(* Line numbers refer to src/unnamed/part_001, the version with the        *)
(* server; src/main.go and src/unnamed/part_000 are earlier versions of    *)
(* the same file (runIndex there returns on the first failed document and  *)
(* persists through the same os.Create).                                   *)
(***************************************************************************)
EXTENDS Integers, Sequences, FiniteSets, TLC

\* ------------------------------------------------------------------ bounds

\* Longest list of paths read from standard input by one indexing run.
MaxInput == 3

\* The context budget of runQuery, 4*1024 bytes.
maxContextBytes == 4096

\* ------------------------------------------------------------------ corpus

\* The document files that exist on disk, by path, with their "html" field.
Tag(kind) == [k |-> kind, n |-> 0]
Text(bytes) == [k |-> "x", n |-> bytes]
Space == [k |-> "sp", n |-> 1]

Disk ==
    [A |-> <<Tag("h"), Text(3000)>>,
     B |-> <<Tag("s"), Text(1000), Tag("t"), Tag("n"), Text(93)>>,
     C |-> <<Text(5000)>>]

Paths == DOMAIN Disk

\* Vectors the embedding provider returns for chunks (one dimensionality).
IndexVectors == {<<0, 0>>, <<2, 0>>}

\* ------------------------------------------------------------------ helpers

RECURSIVE SumSeq(_)
SumSeq(s) == IF s = <<>> THEN 0 ELSE Head(s) + SumSeq(Tail(s))

\* Vector.Distance: range over the receiver v, index v2 at the same place.
\* v2[i] with i >= len(v2) is a run-time panic; components of v2 past
\* len(v) are never read.
\* The result is [panic, sum]: whether the call panicked, else the sum.
Distance(v, v2) ==
    IF Len(v2) < Len(v)
    THEN [panic |-> TRUE, sum |-> 0]
    ELSE [panic |-> FALSE,
          sum |-> SumSeq([i \in 1..Len(v) |-> (v[i] - v2[i]) * (v[i] - v2[i])])]

\* strings.ReplaceAll / Regexp.ReplaceAllString(.., " ") on a token.
ReplaceTok(s, kind) == [i \in 1..Len(s) |-> IF s[i].k = kind THEN Space ELSE s[i]]

\* htmlHeadersPat.Split(v, -1): N+1 segments for N heading tags; the empty
\* input gives one empty segment.
RECURSIVE SplitHeaders(_, _)
SplitHeaders(s, cur) ==
    IF s = <<>> THEN <<cur>>
    ELSE IF Head(s).k = "h" THEN <<cur>> \o SplitHeaders(Tail(s), <<>>)
    ELSE SplitHeaders(Tail(s), Append(cur, Head(s)))

\* Document.Chunks
Chunks(html) ==
    LET v1 == ReplaceTok(html, "n")
        v2 == ReplaceTok(v1, "s")
        cs == SplitHeaders(v2, <<>>)
    IN  [i \in 1..Len(cs) |-> ReplaceTok(cs[i], "t")]

\* len(chunkContent)
ByteLen(chunk) ==
    SumSeq([i \in 1..Len(chunk) |-> chunk[i].n])

EmptyIndex == [Documents |-> <<>>, Embeddings |-> <<>>, ChunkRefs |-> <<>>]

\* The append loop over resp.Data of one successfully embedded document.
RECURSIVE AppendChunks(_, _, _)
AppendChunks(ix, vecs, i) ==
    IF i > Len(vecs) THEN ix
    ELSE AppendChunks(
            [ix EXCEPT
               !.Embeddings = Append(@, [Vector |-> vecs[i],
                                       ChunkID |-> Len(ix.ChunkRefs)]),
               !.ChunkRefs = Append(@, [DocumentID |-> Len(ix.Documents),
                                       ChunkNumber |-> i - 1])],
            vecs, i + 1)

\* A variant that records the path before the chunks of the document.
IndexStepDocsFirst(ix, path, outcome, vecs) ==
    IF outcome # "ok" THEN ix
    ELSE AppendChunks([ix EXCEPT !.Documents = Append(@, path)], vecs, 1)

\* A variant that keeps the path of a document whose embedding call failed.
IndexStepKeepsFailed(ix, path, outcome, vecs) ==
    IF outcome \in {"openErr", "decodeErr"} THEN ix
    ELSE LET after == IF outcome = "ok" THEN AppendChunks(ix, vecs, 1) ELSE ix
         IN  [after EXCEPT !.Documents = Append(@, path)]

\* One iteration of the input loop of runIndex on `path`: a failed open,
\* decode or embedding call leaves the index as it was (continue); otherwise
\* the chunks are appended and then the path.
IndexStep(ix, path, outcome, vecs) ==
    IF outcome # "ok" THEN ix
    ELSE LET after == AppendChunks(ix, vecs, 1)
         IN  [after EXCEPT !.Documents = Append(@, path)]

\* ------------------------------------------------------------------ state

VARIABLES
    token,      \* openAIAuthToken is set
    stdin,      \* paths not yet read from standard input
    scanErr,    \* sc.Err() # nil
    ipc,        \* position of runIndex
    ix,         \* docs, embeddings, chunkRefs of runIndex
    indexFile,  \* content of index.json.gz
    priorFile,  \* history: index.json.gz when the run started
    events,     \* history: path, outcome and vectors of each turn of the
                \* input loop
    mode,       \* "index", "cli" or "server": the branch main takes
    proc,       \* position of runCLI / runServer
    exit,       \* exit status of the process, -1 while it runs
    idx,        \* the Index loadIndex returned; its slices are shared by
                \* every runQuery call (Index is passed by value, the
                \* backing arrays are not copied)
    loaded,     \* history: idx as loadIndex returned it
    budget,     \* the byte budget of the packing loop
    req         \* per request: position and locals of runQuery

ivars == <<token, stdin, scanErr, ipc, ix, priorFile, events>>

qvars == <<mode, proc, exit, idx, loaded, budget, req>>

vars == <<ivars, indexFile, qvars>>

Absent == [kind |-> "absent"]
Truncated == [kind |-> "truncated"]
Partial == [kind |-> "partial"]
Valid(index) == [kind |-> "valid", idx |-> index]

RECURSIVE SeqsUpTo(_, _)
SeqsUpTo(S, n) ==
    IF n = 0 THEN {<<>>}
    ELSE LET shorter == SeqsUpTo(S, n - 1)
         IN  shorter \cup {Append(s, x) : s \in shorter, x \in S}

NoEmb == [Vector |-> <<>>, ChunkID |-> -1]

\* The locals of a runQuery call that has not started.
IdleReq ==
    [pc |-> "idle", qEmb |-> <<>>, i |-> 0, j |-> 0, tmp |-> NoEmb, k |-> 0,
     chunks |-> <<>>, contextSize |-> 0, out |-> "none",
     failure |-> "none", genCalled |-> FALSE]

\* runQuery has returned: its locals are gone; what is left is what the
\* caller got (out), and the history of the call.
Returned(result, why, gen) ==
    [IdleReq EXCEPT !.pc = "done", !.out = result, !.failure = why, !.genCalled = gen]

\* A variant that skips the chunk whose document cannot be read.
WalkErrorSkips(me, why) == [me EXCEPT !.k = @ + 1, !.failure = why]

\* os.Open or Decode failed in the packing loop: return "", err.
WalkError(me, why) == Returned("error", why, FALSE)

\* An index file left by an earlier, successful run.
PriorIndex == IndexStep(EmptyIndex, "C", "ok", <<<<2, 0>>>>)

\* ------------------------------------------------------------------ runIndex

IndexInit ==
    /\ token \in BOOLEAN
    /\ stdin \in SeqsUpTo(Paths, MaxInput)
    /\ scanErr = FALSE
    /\ ipc = "start"
    /\ ix = EmptyIndex
    /\ indexFile \in {Absent, Valid(PriorIndex)}
    /\ priorFile = indexFile
    /\ events = <<>>
    /\ mode = "index"
    /\ proc = "start"
    /\ exit = -1
    /\ idx = EmptyIndex
    /\ loaded = EmptyIndex
    /\ budget = maxContextBytes
    /\ req = <<>>

\* runIndex, lines 97-104
IndexStart ==
    /\ mode = "index"
    /\ ipc = "start"
    /\ ipc' = IF token THEN "scan" ELSE "failed"
    /\ UNCHANGED <<token, stdin, scanErr, ix, indexFile, priorFile, events>>
    /\ UNCHANGED qvars

\* One turn of `for sc.Scan()`, lines 107-150.
IndexDoc ==
    /\ ipc = "scan"
    /\ stdin # <<>>
    /\ LET path == Head(stdin)
           n == Len(Chunks(Disk[path]))
       IN  \E outcome \in {"ok", "openErr", "decodeErr", "embedErr"} :
           \E vecs \in [1..n -> IndexVectors] :
              /\ outcome # "ok" => vecs = [i \in 1..n |-> <<0, 0>>]
              /\ ix' = IndexStep(ix, path, outcome, vecs)
              /\ events' = Append(events, [path |-> path, outcome |-> outcome,
                                           vecs |-> vecs])
    /\ stdin' = Tail(stdin)
    /\ UNCHANGED <<token, scanErr, ipc, indexFile, priorFile>>
    /\ UNCHANGED qvars

\* sc.Scan() returns false at the end of the input.
ScanEnd ==
    /\ ipc = "scan"
    /\ stdin = <<>>
    /\ ipc' = "create"
    /\ UNCHANGED <<token, stdin, scanErr, ix, indexFile, priorFile, events>>
    /\ UNCHANGED qvars

\* sc.Scan() returns false on a read failure: lines 151-153 log and go on.
ScanFail ==
    /\ ipc = "scan"
    /\ stdin # <<>>
    /\ scanErr' = TRUE
    /\ ipc' = "create"
    /\ UNCHANGED <<token, stdin, ix, indexFile, priorFile, events>>
    /\ UNCHANGED qvars

\* os.Create("index.json.gz"): truncates the file, or fails.
CreateFile ==
    /\ ipc = "create"
    /\ \/ /\ indexFile' = Truncated
          /\ ipc' = "encode"
       \/ /\ ipc' = "failed"
          /\ UNCHANGED indexFile
    /\ UNCHANGED <<token, stdin, scanErr, ix, priorFile, events>>
    /\ UNCHANGED qvars

\* json.NewEncoder(gz).Encode(idx): the gzip writer may have passed part of
\* the stream to the file when it returns, with or without an error.
EncodeIndex ==
    /\ ipc = "encode"
    /\ indexFile' \in {indexFile, Partial}
    /\ ipc' \in {"flush", "failed"}
    /\ UNCHANGED <<token, stdin, scanErr, ix, priorFile, events>>
    /\ UNCHANGED qvars

\* return gz.Flush(), then the deferred gz.Close(), whose error is dropped.
FlushClose ==
    /\ ipc = "flush"
    /\ \/ /\ ipc' = "done"
          /\ indexFile' = Valid(ix)
       \/ /\ ipc' = "done"
          /\ indexFile' = Partial
       \/ /\ ipc' = "failed"
          /\ indexFile' = Partial
    /\ UNCHANGED <<token, stdin, scanErr, ix, priorFile, events>>
    /\ UNCHANGED qvars

\* The process is killed anywhere before runIndex returns.
IndexCrash ==
    /\ mode = "index"
    /\ ipc \in {"start", "scan", "create", "encode", "flush"}
    /\ ipc' = "crashed"
    /\ UNCHANGED <<token, stdin, scanErr, ix, indexFile, priorFile, events>>
    /\ UNCHANGED qvars

IndexNext ==
    \/ IndexStart
    \/ IndexDoc
    \/ ScanEnd
    \/ ScanFail
    \/ CreateFile
    \/ EncodeIndex
    \/ FlushClose
    \/ IndexCrash

SpecIndex == IndexInit /\ [][IndexNext]_vars

\* ------------------------------------------------------------------ queries

\* Handlers that can run runQuery at the same time (one goroutine each).
MaxRequests == 2

Requests == 1..MaxRequests

\* Vectors the embedding provider returns for a query; the first and the
\* last have another dimensionality than the indexed vectors.
QueryVectors == {<<0>>, <<0, 0>>, <<2, 0>>, <<2, 0, 7>>}

\* Byte budgets the packing loop is run with; runQuery uses maxContextBytes.
Budgets == {0, 3000, maxContextBytes}

\* Every index a successful run of runIndex builds from `input`.
RECURSIVE BuiltFrom(_, _)
BuiltFrom(input, index) ==
    IF input = <<>> THEN {index}
    ELSE LET n == Len(Chunks(Disk[Head(input)]))
         IN  UNION {BuiltFrom(Tail(input), IndexStep(index, Head(input), "ok", vecs)) :
                        vecs \in [1..n -> IndexVectors]}

BuiltIndexes == UNION {BuiltFrom(input, EmptyIndex) : input \in SeqsUpTo(Paths, MaxInput)}

\* A variant that compares the two elements the other way round.
LessReversed(a, jj, q) ==
    LET d1 == Distance(a[jj + 1].Vector, q)
        d2 == Distance(a[jj].Vector, q)
    IN  IF d1.panic \/ d2.panic THEN "panic"
        ELSE IF d2.sum < d1.sum THEN "true" ELSE "false"

\* The less function handed to sort.Slice, called as less(jj, jj-1):
\* "true", "false", or "panic" when a Distance call panics.
Less(a, jj, q) ==
    LET d1 == Distance(a[jj + 1].Vector, q)
        d2 == Distance(a[jj].Vector, q)
    IN  IF d1.panic \/ d2.panic THEN "panic"
        ELSE IF d1.sum < d2.sum THEN "true" ELSE "false"

\* A variant that tests the size reached so far only.
FitsBefore(contextSize, chunkLen, bgt) == ~(contextSize > bgt)

\* A variant that tests the chunk alone.
FitsChunkOnly(contextSize, chunkLen, bgt) == ~(chunkLen > bgt)

\* The negation of the break condition of the packing loop.
Fits(contextSize, chunkLen, bgt) == ~(contextSize + chunkLen > bgt)

\* idx.ChunkRefs[emb.ChunkID], idx.Documents[chunkRef.DocumentID] and
\* doc.Chunks()[chunkRef.ChunkNumber] for one embedding.
ChunkContent(index, emb) ==
    LET chunkRef == index.ChunkRefs[emb.ChunkID + 1]
        docPath == index.Documents[chunkRef.DocumentID + 1]
    IN  Chunks(Disk[docPath])[chunkRef.ChunkNumber + 1]

QueryInit(m, files, budgets) ==
    /\ token = TRUE
    /\ stdin = <<>>
    /\ scanErr = FALSE
    /\ ipc = "none"
    /\ ix = EmptyIndex
    /\ indexFile \in files
    /\ priorFile = indexFile
    /\ events = <<>>
    /\ mode = m
    /\ proc = "start"
    /\ exit = -1
    /\ idx = EmptyIndex
    /\ loaded = EmptyIndex
    /\ budget \in budgets
    /\ req = [r \in Requests |-> IdleReq]

\* loadIndex as called by runCLI and runServer; a failure ends in log.Fatal.
LoadIndex ==
    /\ mode \in {"cli", "server"}
    /\ proc = "start"
    /\ IF indexFile.kind = "valid"
       THEN /\ idx' = indexFile.idx
            /\ loaded' = indexFile.idx
            /\ proc' = "serving"
            /\ exit' = exit
       ELSE /\ proc' = "exited"
            /\ exit' = 1
            /\ UNCHANGED <<idx, loaded>>
    /\ UNCHANGED <<ivars, indexFile, mode, budget, req>>

\* runQuery is entered: by runCLI once, by the handler of a POST with a
\* non-empty question whenever a request comes in.
Arrive(r) ==
    /\ proc = "serving"
    /\ req[r].pc = "idle"
    /\ mode = "cli" => r = 1
    /\ req' = [req EXCEPT ![r] = [IdleReq EXCEPT !.pc = "embed"]]
    /\ UNCHANGED <<ivars, indexFile, mode, proc, exit, idx, loaded, budget>>

\* CreateEmbeddings for the query, lines 196-203.
EmbedQuery(r) ==
    /\ req[r].pc = "embed"
    /\ \/ \E q \in QueryVectors :
            req' = [req EXCEPT ![r].qEmb = q, ![r].pc = "sort",
                               ![r].i = 1, ![r].j = 1]
       \/ req' = [req EXCEPT ![r] = Returned("error", "embed", FALSE)]
    /\ UNCHANGED <<ivars, indexFile, mode, proc, exit, idx, loaded, budget>>

\* sort.Slice(idx.Embeddings, less), lines 207-209.  On a slice this short
\* (at most 12 elements; at most 6 before Go 1.19) the library runs an
\* insertion sort on the slice itself:
\*   for i := 1; i < n; i++ { for j := i; j > 0 && less(j, j-1); j-- { swap(j, j-1) } }
\* This step is one evaluation of the loop conditions, with the two reads
\* of less taken together.  Nothing orders the accesses of two calls to
\* the shared array, so the steps of the calls interleave freely.
SortTest(r) ==
    /\ req[r].pc = "sort"
    /\ LET n == Len(idx.Embeddings)
           me == req[r]
       IN  IF me.i >= n
           THEN req' = [req EXCEPT ![r].pc = "walk", ![r].i = 0, ![r].j = 0]
           ELSE IF me.j = 0
           THEN req' = [req EXCEPT ![r].i = me.i + 1, ![r].j = me.i + 1]
           ELSE LET l == Less(idx.Embeddings, me.j, me.qEmb)
                IN  IF l = "panic"
                    THEN req' = [req EXCEPT ![r] =
                                    [IdleReq EXCEPT !.pc = "panicked", !.failure = "panic"]]
                    ELSE IF l = "true"
                    THEN req' = [req EXCEPT ![r].pc = "swap1"]
                    ELSE req' = [req EXCEPT ![r].i = me.i + 1, ![r].j = me.i + 1]
    /\ UNCHANGED <<ivars, indexFile, mode, proc, exit, idx, loaded, budget>>

\* The swap function of reflect.Swapper, swap(j, j-1), is three copies of
\* an element through the call's own scratch space:
\* typedmemmove(tmp, a[j]); typedmemmove(a[j], a[j-1]); typedmemmove(a[j-1], tmp)
Swap1(r) ==
    /\ req[r].pc = "swap1"
    /\ req' = [req EXCEPT ![r].tmp = idx.Embeddings[req[r].j + 1], ![r].pc = "swap2"]
    /\ UNCHANGED <<ivars, indexFile, mode, proc, exit, idx, loaded, budget>>

Swap2(r) ==
    /\ req[r].pc = "swap2"
    /\ idx' = [idx EXCEPT !.Embeddings[req[r].j + 1] = idx.Embeddings[req[r].j]]
    /\ req' = [req EXCEPT ![r].pc = "swap3"]
    /\ UNCHANGED <<ivars, indexFile, mode, proc, exit, loaded, budget>>

Swap3(r) ==
    /\ req[r].pc = "swap3"
    /\ idx' = [idx EXCEPT !.Embeddings[req[r].j] = req[r].tmp]
    /\ req' = [req EXCEPT ![r].pc = "sort", ![r].j = req[r].j - 1, ![r].tmp = NoEmb]
    /\ UNCHANGED <<ivars, indexFile, mode, proc, exit, loaded, budget>>

\* One turn of the packing loop, lines 215-234.
Walk(r) ==
    /\ req[r].pc = "walk"
    /\ LET me == req[r]
       IN  IF me.k >= Len(idx.Embeddings)
           THEN req' = [req EXCEPT ![r].pc = "complete", ![r].k = 0]
           ELSE \E outcome \in {"ok", "openErr", "decodeErr"} :
                  IF outcome # "ok"
                  THEN req' = [req EXCEPT ![r] = WalkError(me, outcome)]
                  ELSE LET chunkContent == ChunkContent(idx, idx.Embeddings[me.k + 1])
                       IN  IF Fits(me.contextSize, ByteLen(chunkContent), budget)
                           THEN req' = [req EXCEPT
                                          ![r].chunks = Append(@, chunkContent),
                                          ![r].contextSize = @ + ByteLen(chunkContent),
                                          ![r].k = me.k + 1]
                           ELSE req' = [req EXCEPT ![r].pc = "complete", ![r].k = 0]
    /\ UNCHANGED <<ivars, indexFile, mode, proc, exit, idx, loaded, budget>>

\* CreateCompletion, lines 244-257, and what the caller does with the
\* result: the answer is printed or put in the page; an error is returned
\* to main (log.Fatal) or shown as the page's error.
Complete(r) ==
    /\ req[r].pc = "complete"
    /\ \/ req' = [req EXCEPT ![r] = Returned("answer", "none", TRUE)]
       \/ req' = [req EXCEPT ![r] = Returned("error", "completion", TRUE)]
    /\ UNCHANGED <<ivars, indexFile, mode, proc, exit, idx, loaded, budget>>

\* The handler returns (a panic is recovered by net/http, which drops the
\* connection); the slot is free for the next request.
Finish(r) ==
    /\ mode = "server"
    /\ req[r].pc \in {"done", "panicked"}
    /\ req' = [req EXCEPT ![r] = IdleReq]
    /\ UNCHANGED <<ivars, indexFile, mode, proc, exit, idx, loaded, budget>>

\* runCLI returns to main: exit status 0 after printing the answer, 1 from
\* log.Fatal on an error, 2 when the panic ended the process.
CliExit ==
    /\ mode = "cli"
    /\ proc = "serving"
    /\ req[1].pc \in {"done", "panicked"}
    /\ proc' = "exited"
    /\ exit' = IF req[1].pc = "panicked" THEN 2
               ELSE IF req[1].out = "error" THEN 1 ELSE 0
    /\ UNCHANGED <<ivars, indexFile, mode, idx, loaded, budget, req>>

\* main with -query: runCLI, one runQuery call.
CliNext ==
    \/ LoadIndex
    \/ Arrive(1)
    \/ EmbedQuery(1)
    \/ SortTest(1)
    \/ Swap1(1)
    \/ Swap2(1)
    \/ Swap3(1)
    \/ Walk(1)
    \/ Complete(1)
    \/ CliExit

\* main without -index and -query: runServer, a handler per request.
ServeNext ==
    \/ LoadIndex
    \/ \E r \in Requests :
          \/ Arrive(r)
          \/ EmbedQuery(r)
          \/ SortTest(r)
          \/ Swap1(r)
          \/ Swap2(r)
          \/ Swap3(r)
          \/ Walk(r)
          \/ Complete(r)
          \/ Finish(r)

\* The command-line program, with the budget of the packing loop drawn
\* from Budgets: one runQuery call on each index runIndex can build.
RetrieveInit ==
    QueryInit("cli", {Absent, Truncated} \cup {Valid(b) : b \in BuiltIndexes}, Budgets)

SpecRetrieve == RetrieveInit /\ [][CliNext]_vars

\* The documents of the index the query program is run on.
ServedInputs == {<<"B", "C">>}

QueryNext ==
    \/ ServeNext
    \/ CliExit

\* main in its two query modes, with the budget of the code: runCLI with
\* one runQuery call, and the server with any number of requests, at most
\* MaxRequests of them at a time.
ServedIndexes == UNION {BuiltFrom(input, EmptyIndex) : input \in ServedInputs}

QueryModesInit ==
    \E m \in {"cli", "server"} :
       QueryInit(m, {Absent} \cup {Valid(b) : b \in ServedIndexes}, {maxContextBytes})

SpecQuery == QueryModesInit /\ [][QueryNext]_vars

\* ------------------------------------------------------------------ runIndex: properties

IsOk(e) == e.outcome = "ok"

\* The chunks of the documents indexed so far, in input order, each with
\* the position of its document among the indexed ones, its ordinal, its
\* path and the vector the provider returned for it.
RECURSIVE FlatChunks(_, _)
FlatChunks(ok, d) ==
    IF d > Len(ok) THEN <<>>
    ELSE [c \in 1..Len(ok[d].vecs) |->
             [doc |-> d - 1, num |-> c - 1, path |-> ok[d].path, vec |-> ok[d].vecs[c]]]
         \o FlatChunks(ok, d + 1)

\* The index that holds exactly the documents of `evs` that succeeded.
ExpectedIndex(evs) ==
    LET ok == SelectSeq(evs, IsOk)
        flat == FlatChunks(ok, 1)
    IN  [Documents |-> [d \in 1..Len(ok) |-> ok[d].path],
         Embeddings |-> [c \in 1..Len(flat) |-> [Vector |-> flat[c].vec, ChunkID |-> c - 1]],
         ChunkRefs |-> [c \in 1..Len(flat) |->
                          [DocumentID |-> flat[c].doc, ChunkNumber |-> flat[c].num]]]

Assembled == ipc \in {"create", "encode", "flush", "done"}

RefsValid(index, flat) ==
    /\ \A i \in 1..Len(index.Embeddings) :
          index.Embeddings[i].ChunkID \in 0..(Len(index.ChunkRefs) - 1)
    /\ Len(flat) = Len(index.ChunkRefs)
    /\ \A j \in 1..Len(index.ChunkRefs) :
          /\ index.ChunkRefs[j].DocumentID \in 0..(Len(index.Documents) - 1)
          /\ index.Documents[index.ChunkRefs[j].DocumentID + 1] = flat[j].path

\* C5: in the index runIndex assembles, whatever documents succeeded or
\* were skipped, every embedding's ChunkID is an index into ChunkRefs, and
\* every ChunkRef's DocumentID is an index into Documents, at the path of
\* the document the chunk was produced from.  The same holds of the index
\* it writes to the file.
C5_IndexReferencesValid ==
    LET flat == FlatChunks(SelectSeq(events, IsOk), 1)
    IN  /\ Assembled => RefsValid(ix, flat)
        /\ (ipc = "done" /\ indexFile.kind = "valid") => RefsValid(indexFile.idx, flat)

\* C5 witness: a written index of two documents, the first of two chunks,
\* built by a run that skipped a document between them.
C5_Witness ==
    /\ ipc = "done"
    /\ indexFile.kind = "valid"
    /\ Len(events) = 3
    /\ events[1].outcome = "ok" /\ Len(events[1].vecs) = 2
    /\ events[2].outcome # "ok"
    /\ events[3].outcome = "ok"
    /\ Len(indexFile.idx.Documents) = 2

\* C6: while an indexing run has not completed its persist, a valid index
\* file that was there before the run is still what the file holds; after
\* it, the file holds either that or the complete new index.
C6_PriorIndexKept ==
    priorFile.kind = "valid" =>
       \/ indexFile = priorFile
       \/ /\ ipc = "done"
          /\ indexFile.kind = "valid"
          /\ indexFile.idx = ix

\* C7: once the input loop has ended, by the end of the input or by a read
\* failure, the index to write holds exactly the documents that succeeded,
\* in input order, with all their chunks, and nothing of a document whose
\* open, decode or embedding call failed; the loop has gone through every
\* path it could read; and the index written to the file is that index.
C7_WrittenIndexIsCompletedWork ==
    /\ Assembled => ix = ExpectedIndex(events)
    /\ (Assembled /\ ~scanErr) => stdin = <<>>
    /\ (ipc = "done" /\ indexFile.kind = "valid") => indexFile.idx = ExpectedIndex(events)

\* C7 witness: the input stream failed after one document was indexed and
\* one skipped for a failed embedding call, and the index was written.
C7_Witness ==
    /\ ipc = "done"
    /\ indexFile.kind = "valid"
    /\ scanErr
    /\ stdin # <<>>
    /\ Len(events) = 2
    /\ events[1].outcome = "embedErr"
    /\ events[2].outcome = "ok"
    /\ Len(indexFile.idx.Documents) = 1

\* ------------------------------------------------------------------ runQuery: properties

Dist(emb, q) == Distance(emb.Vector, q).sum

SortedBy(embs, q) ==
    \A a, b \in 1..Len(embs) : a < b => Dist(embs[a], q) <= Dist(embs[b], q)

Count(embs, e) == Cardinality({a \in 1..Len(embs) : embs[a] = e})

IsPermutation(embs, of) ==
    /\ Len(embs) = Len(of)
    /\ \A a \in 1..Len(of) : Count(embs, of[a]) = Count(of, of[a])

Texts(index, embs) == [a \in 1..Len(embs) |-> ChunkContent(index, embs[a])]

TotalBytes(texts) == SumSeq([a \in 1..Len(texts) |-> ByteLen(texts[a])])

\* The texts of `texts` before the first one that takes the total over bgt.
PrefixWithin(texts, bgt) ==
    LET stops == {m \in 0..Len(texts) :
                     m = Len(texts) \/ TotalBytes(SubSeq(texts, 1, m + 1)) > bgt}
        m == CHOOSE x \in stops : \A y \in stops : x <= y
    IN  SubSeq(texts, 1, m)

InRanking(r) == req[r].pc \in {"sort", "swap1", "swap2", "swap3"}

Reading(r) == req[r].pc \in {"sort", "swap1", "swap2", "swap3", "walk"}

\* C1: a step of one request never changes the shared embeddings while
\* another request is in its ranking step or its packing loop.
C1_NoWriteWhileOthersRead ==
    [][\A r \in Requests :
          (Reading(r) /\ req'[r] = req[r]) => idx'.Embeddings = idx.Embeddings]_vars

\* C2: at every point of the packing loop and at its end, contextSize is
\* the total byte length of the chunks accumulated, and it is at most the
\* budget, which is never more than maxContextBytes.
C2_ContextWithinBudget ==
    \A r \in Requests :
       /\ req[r].contextSize = TotalBytes(req[r].chunks)
       /\ req[r].contextSize <= budget
       /\ budget <= maxContextBytes

\* C2 witness: the loop of runQuery ended with several chunks that fill
\* the budget of 4096 bytes to the last byte.
C2_Witness ==
    \E r \in Requests :
       /\ req[r].pc = "complete"
       /\ budget = maxContextBytes
       /\ req[r].contextSize = maxContextBytes
       /\ Len(req[r].chunks) >= 2

\* C3: the chunks a call has when its packing loop ends are the texts of
\* the longest prefix within the budget of the loaded embeddings in some
\* order of non-decreasing distance to the call's query.
C3_RankedPrefix ==
    \A r \in Requests :
       req[r].pc = "complete" =>
          \E f \in Permutations(1..Len(loaded.Embeddings)) :
             LET ranked == [a \in 1..Len(loaded.Embeddings) |-> loaded.Embeddings[f[a]]]
             IN  /\ SortedBy(ranked, req[r].qEmb)
                 /\ req[r].chunks = PrefixWithin(Texts(loaded, ranked), budget)

\* C4 as stated: with a budget of 0 bytes the chunk list is empty.
C4_ZeroBudgetEmpty ==
    \A r \in Requests : budget = 0 => req[r].chunks = <<>>

\* C4 as amended: with a budget of 0 bytes the chunk list holds empty
\* chunks only, and none when the first chunk walked is not empty.
C4_ZeroBudgetOnlyEmptyChunks ==
    \A r \in Requests :
       budget = 0 =>
          /\ \A a \in 1..Len(req[r].chunks) : ByteLen(req[r].chunks[a]) = 0
          /\ req[r].contextSize = 0
          /\ (/\ req[r].pc = "complete"
              /\ idx.Embeddings # <<>>
              /\ ByteLen(ChunkContent(idx, idx.Embeddings[1])) > 0) => req[r].chunks = <<>>

\* C4 witness: budget 0, and the loop ended at a chunk that is not empty
\* after it took an empty one.
C4_Witness ==
    \E r \in Requests :
       /\ budget = 0
       /\ req[r].pc = "complete"
       /\ req[r].chunks # <<>>
       /\ Len(req[r].chunks) < Len(idx.Embeddings)

\* C8: a call whose query vector has another length than the indexed
\* vectors never gets past the ranking step of an index with two or more
\* embeddings (where the less function is called).
C8_MismatchFailsRanking ==
    \A r \in Requests :
       (/\ Len(loaded.Embeddings) >= 2
        /\ req[r].qEmb # <<>>
        /\ Len(req[r].qEmb) # Len(loaded.Embeddings[1].Vector))
       => req[r].pc \notin {"walk", "complete"}

QueryFailures == {"embed", "openErr", "decodeErr", "completion"}

C9_Aborted ==
    \A r \in Requests :
       /\ req[r].failure \in QueryFailures => (req[r].pc = "done" /\ req[r].out = "error")
       /\ req[r].failure \in {"embed", "openErr", "decodeErr"} => ~req[r].genCalled
       /\ req[r].out = "answer" => (req[r].failure = "none" /\ req[r].genCalled)
       /\ (mode = "cli" /\ proc = "exited" /\ req[r].failure # "none") => exit # 0
       /\ (mode = "server" /\ req[r].pc # "idle") => proc = "serving"

C9_OthersUntouched ==
    \A r \in Requests :
       (req[r].failure = "none" /\ req'[r].failure \in QueryFailures) =>
          /\ idx' = idx
          /\ proc' = proc
          /\ \A o \in Requests \ {r} : req'[o] = req[o]

\* C9: a failed query-embedding call, a document that cannot be opened or
\* decoded in the packing loop, and a failed completion call each end that
\* runQuery call at once with an error and no answer; the completion call
\* is not made after the first two; runCLI then exits with a non-zero
\* status and the server stays up; and the failing step changes neither
\* the index nor any other request.
C9_QueryFailureAbortsOneQuery == []C9_Aborted /\ [][C9_OthersUntouched]_vars

\* C9 witness: in the server, one request has failed on a document it
\* could not open and another has its answer.
C9_Witness ==
    /\ mode = "server"
    /\ \E r, o \in Requests :
          /\ req[r].failure = "openErr"
          /\ req[r].out = "error"
          /\ req[o].out = "answer"

\* C10: whenever no call is inside its ranking step, Documents and
\* ChunkRefs are as loaded and Embeddings is a permutation of the loaded
\* embeddings, each with its own Vector and ChunkID.
C10_RankingPermutes ==
    (proc = "serving" /\ \A r \in Requests : ~InRanking(r)) =>
       /\ idx.Documents = loaded.Documents
       /\ idx.ChunkRefs = loaded.ChunkRefs
       /\ IsPermutation(idx.Embeddings, loaded.Embeddings)

====
